---------------------------- MODULE Spec2Model ----------------------------
(***************************************************************************)
(* helper_functions.py: calculate_results and make_confusion_matrix.       *)
(*                                                                         *)
(* One call is in flight at a time.  The state holds the call's arguments, *)
(* the locals of the function being executed, the position in its body     *)
(* (pc, a source line), the exception that ended it (error) and what the   *)
(* call has returned or drawn so far.                                      *)
(*                                                                         *)
(* Floating point values are exact rationals num/den, plus NaN.            *)
(***************************************************************************)
EXTENDS Integers, Sequences, FiniteSets

\* Longest label sequences passed to calculate_results.
MaxLen == 4

\* Longest label sequences passed to make_confusion_matrix.
MaxSamples == 3

\* Class identifiers that occur in the label sequences.
Labels == {0, 1, 2}

\* Values of the classes argument: None, or a list of display names.
None == [given |-> FALSE, names |-> <<>>]

ClassLists ==
  { <<"cat", "dog">>, <<"cat", "dog", "bird">> }

ClassesArgs == {None} \cup { [given |-> TRUE, names |-> l] : l \in ClassLists }

LabelSeqs(max) == UNION { [1..n -> Labels] : n \in 0..max }

-----------------------------------------------------------------------------
(* Floats *)

Float(n, d) == [nan |-> FALSE, num |-> n, den |-> d]

NaN == [nan |-> TRUE, num |-> 0, den |-> 1]

\* numpy true division: 0/0 is nan (a RuntimeWarning, no exception).  The
\* numerators here are counts, so x/0 with x # 0 does not occur.
np_divide(n, d) == IF d = 0 THEN NaN ELSE Float(n, d)

FloatEq(a, b) ==
  /\ ~a.nan
  /\ ~b.nan
  /\ a.num * b.den = b.num * a.den

FloatAdd(a, b) ==
  IF a.nan \/ b.nan THEN NaN
  ELSE Float(a.num * b.den + b.num * a.den, a.den * b.den)

FloatMul(a, b) ==
  IF a.nan \/ b.nan THEN NaN ELSE Float(a.num * b.num, a.den * b.den)

-----------------------------------------------------------------------------
(* sklearn helpers, as called from the two functions *)

RECURSIVE SortedSeq(_)
SortedSeq(S) ==
  IF S = {} THEN <<>>
  ELSE LET m == CHOOSE x \in S : \A y \in S : x <= y
       IN  <<m>> \o SortedSeq(S \ {m})

\* sklearn.utils.multiclass.unique_labels: the sorted distinct labels of both.
unique_labels(yt, yp) ==
  SortedSeq({ yt[k] : k \in DOMAIN yt } \cup { yp[k] : k \in DOMAIN yp })

\* check_consistent_length: ValueError on a different number of samples.
consistent_length(yt, yp) == Len(yt) = Len(yp)

\* Position of label v in the sorted label sequence.
label_to_ind(ls, v) == CHOOSE i \in DOMAIN ls : ls[i] = v


\* Number of positions of seq that hold v (one bin of numpy.bincount).
RECURSIVE Count(_, _)
Count(seq, v) ==
  IF seq = <<>> THEN 0
  ELSE (IF Head(seq) = v THEN 1 ELSE 0) + Count(Tail(seq), v)

\* numpy.bincount over the encoded labels, minlength = number of labels.
bincount(seq, ls) == [c \in DOMAIN ls |-> Count(seq, ls[c])]

\* y_true[y_true == y_pred]: the labels of the correctly predicted samples.
RECURSIVE tp_bins(_, _)
tp_bins(yt, yp) ==
  IF yt = <<>> THEN <<>>
  ELSE (IF Head(yt) = Head(yp) THEN <<Head(yt)>> ELSE <<>>)
         \o tp_bins(Tail(yt), Tail(yp))

\* Rows and columns exchanged: row = predicted class.
CMAddTransposed(m, i, j) == [m EXCEPT ![j][i] = @ + 1]

\* One sample added to the cell (row = true class, column = predicted class).
CMAdd(m, i, j) == [m EXCEPT ![i][j] = @ + 1]

RECURSIVE CMFold(_, _, _, _)
CMFold(ls, yt, yp, k) ==
  IF k = 0 THEN [i \in DOMAIN ls |-> [j \in DOMAIN ls |-> 0]]
  ELSE CMAdd(CMFold(ls, yt, yp, k - 1),
             label_to_ind(ls, yt[k]), label_to_ind(ls, yp[k]))

\* sklearn.metrics.confusion_matrix(y_true, y_pred) for equal-length inputs:
\* labels = unique_labels, one count per (true, predicted) pair of samples.
confusion_matrix(yt, yp) == CMFold(unique_labels(yt, yp), yt, yp, Len(yt))

RECURSIVE SeqSum(_)
SeqSum(s) == IF s = <<>> THEN 0 ELSE Head(s) + SeqSum(Tail(s))

\* cm.sum(axis=1): the total of every row.
row_sums(m) == [i \in DOMAIN m |-> SeqSum(m[i])]

\* cm.astype("float") / cm.sum(axis=1)[:, np.newaxis]
normalize_rows(m) ==
  [i \in DOMAIN m |-> [j \in DOMAIN m[i] |-> np_divide(m[i][j], row_sums(m)[i])]]

\* accuracy_score: the mean of (y_true == y_pred); the mean of no sample is nan.
accuracy_score(yt, yp) == np_divide(Len(tp_bins(yt, yp)), Len(yt))

\* The fraction, not scaled to a percentage.
ModelAccuracyUnscaled(yt, yp) == accuracy_score(yt, yp)

\* line 282
ModelAccuracy(yt, yp) == FloatMul(accuracy_score(yt, yp), Float(100, 1))

\* _prf_divide with zero_division="warn": 0.0 where the denominator is 0.
prf_divide(n, d) == IF d = 0 THEN Float(0, 1) ELSE Float(n, d)

RECURSIVE WeightedSum(_, _, _)
WeightedSum(vals, w, c) ==
  IF c = 0 THEN Float(0, 1)
  ELSE FloatAdd(WeightedSum(vals, w, c - 1), FloatMul(vals[c], Float(w[c], 1)))

\* numpy.average(vals, weights=w) = sum(vals * w) / sum(w)
np_average(vals, w) ==
  FloatMul(WeightedSum(vals, w, Len(vals)), Float(1, SeqSum(w)))

\* average="macro": every class weighs the same.
AverageMacro(vals, true_sum) ==
  IF Len(vals) = 0 THEN Float(0, 1)
  ELSE np_average(vals, [c \in DOMAIN vals |-> 1])

\* average="weighted": weights = true_sum; all three are 0.0 when no sample
\* carries any weight.
Average(vals, true_sum) ==
  IF SeqSum(true_sum) = 0 THEN Float(0, 1) ELSE np_average(vals, true_sum)

\* The f-score without its factor 1 + beta^2.
FScoreHalf(tp, pred, true) == prf_divide(tp, true + pred)

\* f-score for beta = 1: (1 + beta^2) tp / (beta^2 true_sum + pred_sum)
FScore(tp, pred, true) == prf_divide(2 * tp, true + pred)

\* precision_recall_fscore_support(y_true, y_pred, average="weighted"),
\* without the support, which the caller drops.
precision_recall_fscore_support(yt, yp) ==
  LET ls       == unique_labels(yt, yp)
      tp_sum   == bincount(tp_bins(yt, yp), ls)
      pred_sum == bincount(yp, ls)
      true_sum == bincount(yt, ls)
      precision == [c \in DOMAIN ls |-> prf_divide(tp_sum[c], pred_sum[c])]
      recall    == [c \in DOMAIN ls |-> prf_divide(tp_sum[c], true_sum[c])]
      f_score   == [c \in DOMAIN ls |-> FScore(tp_sum[c], pred_sum[c], true_sum[c])]
  IN  [precision |-> Average(precision, true_sum),
       recall    |-> Average(recall, true_sum),
       f1        |-> Average(f_score, true_sum)]

-----------------------------------------------------------------------------
(* State *)

VARIABLES
  fn,             \* the function called
  y_true, y_pred, \* its label sequences
  classes, norm, savefig,   \* make_confusion_matrix's other arguments
  pc,             \* the line about to run, or "returned" / "raised"
  error,          \* the exception that ended the call, "" if none
  cm, cm_norm, n_classes,   \* locals of make_confusion_matrix
  fig,            \* whether plt.subplots has created the figure
  drawn,          \* what has been drawn on the axes
  ticklabels,     \* the axis tick labels, once set
  texts,          \* the cells (i, j) whose text has been drawn
  saved,          \* how many times confusion_matrix.png has been written
  model_accuracy, model_prf,   \* locals of calculate_results
  model_results   \* the mapping calculate_results returned

vars == <<fn, y_true, y_pred, classes, norm, savefig, pc, error, cm, cm_norm,
          n_classes, fig, drawn, ticklabels, texts, saved, model_accuracy,
          model_prf, model_results>>

args == <<fn, y_true, y_pred, classes, norm, savefig>>

cm_locals == <<cm, cm_norm, n_classes>>

figure == <<fig, drawn, ticklabels, texts, saved>>

cr_locals == <<model_accuracy, model_prf, model_results>>

NoPrf == [precision |-> Float(0, 1), recall |-> Float(0, 1), f1 |-> Float(0, 1)]

NoResults == [set |-> FALSE, accuracy |-> Float(0, 1), precision |-> Float(0, 1),
              recall |-> Float(0, 1), f1 |-> Float(0, 1)]

\* Nothing of the call has run yet.
Fresh ==
  /\ error = ""
  /\ cm = <<>>
  /\ cm_norm = <<>>
  /\ n_classes = 0
  /\ fig = FALSE
  /\ drawn = {}
  /\ ticklabels = [set |-> FALSE, labels |-> <<>>]
  /\ texts = {}
  /\ saved = 0
  /\ model_accuracy = Float(0, 1)
  /\ model_prf = NoPrf
  /\ model_results = NoResults

\* A call make_confusion_matrix(y_true, y_pred, classes, norm=, savefig=).
InitMatrix ==
  /\ fn = "make_confusion_matrix"
  /\ y_true \in LabelSeqs(MaxSamples)
  /\ y_pred \in LabelSeqs(MaxSamples)
  /\ classes \in ClassesArgs
  /\ norm \in BOOLEAN
  /\ savefig \in BOOLEAN
  /\ pc = "l53"
  /\ Fresh

\* A call calculate_results(y_true, y_pred).
InitResults ==
  /\ fn = "calculate_results"
  /\ y_true \in LabelSeqs(MaxLen)
  /\ y_pred \in LabelSeqs(MaxLen)
  /\ classes = None
  /\ norm = FALSE
  /\ savefig = FALSE
  /\ pc = "l282"
  /\ Fresh

-----------------------------------------------------------------------------
(* make_confusion_matrix *)

\* line 53: cm = confusion_matrix(y_true, y_pred)
ConfusionMatrixRaises ==
  /\ pc = "l53"
  /\ ~consistent_length(y_true, y_pred)
  /\ pc' = "raised"
  /\ error' = "ValueError"
  /\ UNCHANGED <<args, cm_locals, figure, cr_locals>>

ConfusionMatrix ==
  /\ pc = "l53"
  /\ consistent_length(y_true, y_pred)
  /\ cm' = confusion_matrix(y_true, y_pred)
  /\ pc' = "l54"
  /\ UNCHANGED <<args, error, cm_norm, n_classes, figure, cr_locals>>

\* lines 54-55: the row-normalized matrix, whatever norm is, and n_classes
Normalize ==
  /\ pc = "l54"
  /\ cm_norm' = normalize_rows(cm)
  /\ n_classes' = Len(cm)
  /\ pc' = "l58"
  /\ UNCHANGED <<args, error, cm, figure, cr_locals>>

\* Names looked up on the Axes object that it does not have.
AxesHasAttr(name) == name \notin {"matshop", "set_label_postion"}

\* lines 58-59: plt.subplots creates the figure, then the lookup of
\* ax.matshop raises; lines 60-99 never run.
Plot ==
  /\ pc = "l58"
  /\ fig' = TRUE
  /\ ~AxesHasAttr("matshop")
  /\ pc' = "raised"
  /\ error' = "AttributeError"
  /\ UNCHANGED <<args, cm_locals, drawn, ticklabels, texts, saved, cr_locals>>

-----------------------------------------------------------------------------
(* calculate_results *)

\* line 282
AccuracyScoreRaises ==
  /\ pc = "l282"
  /\ ~consistent_length(y_true, y_pred)
  /\ pc' = "raised"
  /\ error' = "ValueError"
  /\ UNCHANGED <<args, cm_locals, figure, cr_locals>>

AccuracyScore ==
  /\ pc = "l282"
  /\ consistent_length(y_true, y_pred)
  /\ model_accuracy' = ModelAccuracy(y_true, y_pred)
  /\ pc' = "l284"
  /\ UNCHANGED <<args, error, cm_locals, figure, model_prf, model_results>>

\* line 284
PrecisionRecallFscore ==
  /\ pc = "l284"
  /\ model_prf' = precision_recall_fscore_support(y_true, y_pred)
  /\ pc' = "l285"
  /\ UNCHANGED <<args, error, cm_locals, figure, model_accuracy, model_results>>

\* lines 285-289
Return ==
  /\ pc = "l285"
  /\ model_results' = [set |-> TRUE, accuracy |-> model_accuracy,
                       precision |-> model_prf.precision,
                       recall |-> model_prf.recall, f1 |-> model_prf.f1]
  /\ pc' = "returned"
  /\ UNCHANGED <<args, error, cm_locals, figure, model_accuracy, model_prf>>

-----------------------------------------------------------------------------

NextMatrix ==
  \/ ConfusionMatrixRaises
  \/ ConfusionMatrix
  \/ Normalize
  \/ Plot

NextResults ==
  \/ AccuracyScoreRaises
  \/ AccuracyScore
  \/ PrecisionRecallFscore
  \/ Return

\* Calls of make_confusion_matrix.
SpecMatrix == InitMatrix /\ [][NextMatrix]_vars

\* Calls of calculate_results.
SpecResults == InitResults /\ [][NextResults]_vars

Done == pc \in {"returned", "raised"}

-----------------------------------------------------------------------------
(* What the properties below speak of, stated on the arguments alone *)

Samples == 1..Len(y_true)

SameLength == Len(y_true) = Len(y_pred)

NonEmpty == Len(y_true) >= 1 /\ Len(y_pred) >= 1

\* The distinct labels of both sequences.
Seen == { y_true[k] : k \in DOMAIN y_true } \cup { y_pred[k] : k \in DOMAIN y_pred }

\* The i-th class: the label of Seen with i - 1 smaller labels in Seen.
ClassAt(i) == CHOOSE c \in Seen : Cardinality({ d \in Seen : d < c }) = i - 1

Support(c) == Cardinality({ k \in Samples : y_true[k] = c })

Predicted(c) == Cardinality({ k \in Samples : y_pred[k] = c })

TruePositives(c) == Cardinality({ k \in Samples : y_true[k] = c /\ y_pred[k] = c })

FalsePositives(c) == Cardinality({ k \in Samples : y_true[k] # c /\ y_pred[k] = c })

FalseNegatives(c) == Cardinality({ k \in Samples : y_true[k] = c /\ y_pred[k] # c })

ClassPrecision(c) ==
  IF TruePositives(c) + FalsePositives(c) = 0 THEN Float(0, 1)
  ELSE Float(TruePositives(c), TruePositives(c) + FalsePositives(c))

ClassRecall(c) ==
  IF TruePositives(c) + FalseNegatives(c) = 0 THEN Float(0, 1)
  ELSE Float(TruePositives(c), TruePositives(c) + FalseNegatives(c))

\* The harmonic mean of precision and recall, 0 when both are 0.
ClassF1(c) ==
  LET p == ClassPrecision(c)
      r == ClassRecall(c)
      s == FloatAdd(p, r)
  IN  IF s.num = 0 THEN Float(0, 1)
      ELSE Float(2 * p.num * r.num * s.den, p.den * r.den * s.num)

\* Sum over the classes of S of (support of c / n) * v[c].
RECURSIVE SupportWeighted(_, _)
SupportWeighted(S, v) ==
  IF S = {} THEN Float(0, 1)
  ELSE LET c == CHOOSE x \in S : TRUE
       IN  FloatAdd(FloatMul(Float(Support(c), Len(y_true)), v[c]),
                    SupportWeighted(S \ {c}, v))

\* The exceptions that report an invalid argument.
InvalidInput == {"ValueError", "TypeError"}

\* The confusion matrix has been built (line 53 has run without raising).
CmBuilt ==
  /\ fn = "make_confusion_matrix"
  /\ pc \in {"l54", "l58"} \/ (pc = "raised" /\ error = "AttributeError")

\* Rows of the matrix whose class never occurs in y_true.
ZeroRows == { i \in 1..Cardinality(Seen) : Support(ClassAt(i)) = 0 }

AllCells == (1..Cardinality(Seen)) \X (1..Cardinality(Seen))

\* Arguments make_confusion_matrix is meant to render: non-empty sequences of
\* equal length, every class occurring in y_true, classes omitted or one
\* name per class.
Renderable ==
  /\ SameLength
  /\ NonEmpty
  /\ ZeroRows = {}
  /\ classes.given => Len(classes.names) = Cardinality(Seen)

-----------------------------------------------------------------------------
(* Properties *)

\* C1: for non-empty label sequences of equal length calculate_results
\* returns, and the accuracy it returns is 100 * (number of indices where
\* y_true and y_pred agree) / n.
AccuracyIsPercentOfMatches ==
  (fn = "calculate_results" /\ Done /\ SameLength /\ NonEmpty) =>
    /\ pc = "returned"
    /\ model_results.set
    /\ FloatEq(model_results.accuracy,
               Float(100 * Cardinality({ i \in Samples : y_true[i] = y_pred[i] }),
                     Len(y_true)))

\* C1 witness: y_true = [0,0,1,1], y_pred = [0,1,1,1] has returned 75.0.
AccuracyScenarioReturned ==
  /\ pc = "returned"
  /\ y_true = <<0, 0, 1, 1>>
  /\ y_pred = <<0, 1, 1, 1>>
  /\ FloatEq(model_results.accuracy, Float(75, 1))

\* C2: once make_confusion_matrix has built cm from sequences of equal
\* length, cell (i, j) is the number of samples whose true label is the i-th
\* class and whose predicted label is the j-th class; every cell is >= 0 and
\* row i sums to the number of samples whose true label is the i-th class.
CellsCountSamples ==
  CmBuilt =>
    /\ Len(cm) = Cardinality(Seen)
    /\ \A i \in 1..Cardinality(Seen) :
         /\ Len(cm[i]) = Cardinality(Seen)
         /\ \A j \in 1..Cardinality(Seen) :
              /\ cm[i][j] = Cardinality({ k \in Samples :
                                y_true[k] = ClassAt(i) /\ y_pred[k] = ClassAt(j) })
              /\ cm[i][j] >= 0
         /\ SeqSum(cm[i]) = Support(ClassAt(i))

\* C2 witness: a matrix with an off-diagonal count has been built.
AsymmetricMatrixBuilt ==
  /\ CmBuilt
  /\ y_true = <<0, 0, 1>>
  /\ y_pred = <<0, 1, 1>>
  /\ cm = << <<1, 1>>, <<0, 1>> >>

\* C3 (as claimed): calculate_results fails with an InvalidInput error and
\* returns no mapping whenever the lengths differ or a sequence is empty.
InvalidSequencesRejected ==
  (fn = "calculate_results" /\ Done /\ (~SameLength \/ ~NonEmpty)) =>
    /\ pc = "raised"
    /\ error \in InvalidInput
    /\ ~model_results.set

\* C4 (as claimed): with norm=True and a class whose row total is zero, the
\* call does not crash, the normalized value of that row is guarded (no NaN)
\* and every cell of the row has its text drawn, showing 0%.
ZeroRowShowsZeroPercent ==
  (fn = "make_confusion_matrix" /\ Done /\ SameLength /\ norm /\ ZeroRows # {}) =>
    /\ pc = "returned"
    /\ \A i \in ZeroRows : \A j \in 1..Cardinality(Seen) :
         /\ FloatEq(cm_norm[i][j], Float(0, 1))
         /\ <<i, j>> \in texts

\* C5 (as claimed): make_confusion_matrix fails with an InvalidInput error
\* whenever a classes list is supplied whose length differs from the number
\* of distinct labels, and never sets mismatched tick labels.
ClassesMismatchRejected ==
  (/\ fn = "make_confusion_matrix"
   /\ Done
   /\ SameLength
   /\ NonEmpty
   /\ classes.given
   /\ Len(classes.names) # Cardinality(Seen)) =>
    /\ pc = "raised"
    /\ error \in InvalidInput
    /\ ~ticklabels.set

\* C6 (as claimed): a call writes confusion_matrix.png exactly once, after
\* the text of every cell, when savefig is set, and never otherwise.
SavedOnceAfterTexts ==
  (fn = "make_confusion_matrix" /\ Done /\ Renderable) =>
    /\ saved = (IF savefig THEN 1 ELSE 0)
    /\ saved > 0 => texts = AllCells

\* C7: for non-empty sequences of equal length calculate_results does not
\* fail, and precision, recall and f1 are the averages of the per-class
\* values weighted by support / n, a class with a zero denominator
\* contributing the value 0.
WeightedAveragesBySupport ==
  (fn = "calculate_results" /\ Done /\ SameLength /\ NonEmpty) =>
    /\ pc = "returned"
    /\ error = ""
    /\ FloatEq(model_results.precision,
               SupportWeighted(Labels, [c \in Labels |-> ClassPrecision(c)]))
    /\ FloatEq(model_results.recall,
               SupportWeighted(Labels, [c \in Labels |-> ClassRecall(c)]))
    /\ FloatEq(model_results.f1,
               SupportWeighted(Labels, [c \in Labels |-> ClassF1(c)]))

\* C7 witness: a call has returned where one class occurs but is never
\* predicted, another is predicted but never occurs, and a third has both.
ZeroDenominatorsReturned ==
  /\ pc = "returned"
  /\ \E c \in Labels : Support(c) > 0 /\ Predicted(c) = 0
  /\ \E c \in Labels : Support(c) = 0 /\ Predicted(c) > 0
  /\ \E c \in Labels : TruePositives(c) > 0

\* C8: calculate_results(s, s) for non-empty s returns accuracy = 100 and
\* precision = recall = f1 = 1.
PerfectPredictionScores ==
  (fn = "calculate_results" /\ Done /\ y_true = y_pred /\ NonEmpty) =>
    /\ pc = "returned"
    /\ FloatEq(model_results.accuracy, Float(100, 1))
    /\ FloatEq(model_results.precision, Float(1, 1))
    /\ FloatEq(model_results.recall, Float(1, 1))
    /\ FloatEq(model_results.f1, Float(1, 1))

\* C8 witness: a call with y_pred = y_true over several classes has returned.
PerfectPredictionReturned ==
  /\ pc = "returned"
  /\ y_true = y_pred
  /\ Cardinality(Seen) >= 2
  /\ model_results.set

\* C9 (as claimed): without classes, the tick labels are the distinct label
\* values in ascending order and the matrix dimension is their number.
DefaultTicksAreSortedLabels ==
  (fn = "make_confusion_matrix" /\ Done /\ Renderable /\ ~classes.given) =>
    /\ n_classes = Cardinality(Seen)
    /\ ticklabels.set
    /\ ticklabels.labels = [i \in 1..Cardinality(Seen) |-> ClassAt(i)]

\* C10 (as claimed): for renderable arguments the call runs to completion
\* without an error, having drawn the grid, the colour bar, the axis labels
\* and the text of every cell.
RendersToCompletion ==
  (fn = "make_confusion_matrix" /\ Done /\ Renderable) =>
    /\ pc = "returned"
    /\ error = ""
    /\ {"grid", "colorbar", "axis labels"} \subseteq drawn
    /\ texts = AllCells

=============================================================================
